---------------------------- MODULE Spec2Model ----------------------------
(***************************************************************************)
(* Model of src/generator/env-file.ts: generateEnvExample builds the text  *)
(* of a .env.example file from the OpenAPI security schemes and the CLI    *)
(* options.  Text is a sequence of one-character strings (UTF-16 code      *)
(* units), so that line breaks inside scheme names and flow keys are       *)
(* visible to the properties.  An object is the sequence of its own        *)
(* properties in insertion order; Object.entries / Object.keys apply the   *)
(* ECMAScript own-property order to it.                                    *)
(***************************************************************************)
EXTENDS Integers, Sequences, FiniteSets, TLC

(* ---------------------------- bounds ----------------------------------- *)

\* Largest number of properties of the securitySchemes object.
MaxEntries == 2

(* ------------------------ character helpers ---------------------------- *)

LowerLetters ==
    <<"a","b","c","d","e","f","g","h","i","j","k","l","m",
      "n","o","p","q","r","s","t","u","v","w","x","y","z">>

UpperLetters ==
    <<"A","B","C","D","E","F","G","H","I","J","K","L","M",
      "N","O","P","Q","R","S","T","U","V","W","X","Y","Z">>

Digits == <<"0","1","2","3","4","5","6","7","8","9">>

Range(s) == {s[k] : k \in 1..Len(s)}

\* Position of c in s, 0 when absent.
IndexOf(c, s) ==
    IF c \in Range(s) THEN CHOOSE k \in 1..Len(s) : s[k] = c ELSE 0

\* String.prototype.toUpperCase on one code unit of the modelled alphabet.
toUpperCaseChar(c) ==
    IF c \in Range(LowerLetters) THEN UpperLetters[IndexOf(c, LowerLetters)] ELSE c

\* String.prototype.toLowerCase on one code unit of the modelled alphabet.
toLowerCaseChar(c) ==
    IF c \in Range(UpperLetters) THEN LowerLetters[IndexOf(c, UpperLetters)] ELSE c

toUpperCase(s) == [k \in 1..Len(s) |-> toUpperCaseChar(s[k])]

toLowerCase(s) == [k \in 1..Len(s) |-> toLowerCaseChar(s[k])]

\* The character class [a-zA-Z0-9] of the regular expression on line 55.
AlnumChars == Range(LowerLetters) \cup Range(UpperLetters) \cup Range(Digits)

IsAlnum(c) == c \in AlnumChars

\* name.replace(/[^a-zA-Z0-9]/g, '_')
replaceNonAlnum(s) == [k \in 1..Len(s) |-> IF IsAlnum(s[k]) THEN s[k] ELSE "_"]

\* Array.prototype.join
RECURSIVE join(_, _)
join(keys, sep) ==
    IF Len(keys) = 0 THEN <<>>
    ELSE IF Len(keys) = 1 THEN keys[1]
    ELSE keys[1] \o sep \o join(Tail(keys), sep)

(* ----------------------- ECMAScript property order --------------------- *)

\* Decimal digits of the largest array index, 2^32 - 2.
MaxArrayIndexDigits == <<"4","2","9","4","9","6","7","2","9","4">>

DigitValue(c) == IndexOf(c, Digits) - 1

\* a < b for digit strings of equal length.
RECURSIVE DigitsLess(_, _)
DigitsLess(a, b) ==
    IF Len(a) = 0 THEN FALSE
    ELSE IF a[1] # b[1] THEN DigitValue(a[1]) < DigitValue(b[1])
    ELSE DigitsLess(Tail(a), Tail(b))

\* Numeric a <= b for canonical decimal strings.
IndexLeq(a, b) ==
    \/ Len(a) < Len(b)
    \/ Len(a) = Len(b) /\ ~DigitsLess(b, a)

\* A property key is an array index when it is the canonical decimal
\* form of an integer in 0 .. 2^32 - 2.
IsArrayIndex(key) ==
    /\ Len(key) > 0
    /\ \A k \in 1..Len(key) : key[k] \in Range(Digits)
    /\ (Len(key) = 1 \/ key[1] # "0")
    /\ IndexLeq(key, MaxArrayIndexDigits)

RECURSIVE AscendingIndexOrder(_)
AscendingIndexOrder(S) ==
    IF S = {} THEN <<>>
    ELSE LET m == CHOOSE x \in S : \A y \in S : IndexLeq(x.name, y.name)
         IN  <<m>> \o AscendingIndexOrder(S \ {m})

IsIndexProp(p) == IsArrayIndex(p.name)

IsStringProp(p) == ~IsArrayIndex(p.name)

\* Object.entries(o): array-index keys in ascending numeric order, then
\* the other string keys in insertion order.
ObjectEntries(props) ==
    AscendingIndexOrder({props[k] : k \in {j \in 1..Len(props) : IsIndexProp(props[j])}})
        \o SelectSeq(props, IsStringProp)

\* Object.keys(o)
ObjectKeys(props) ==
    LET e == ObjectEntries(props) IN [k \in 1..Len(e) |-> e[k].name]

(* ----------------------------- literals -------------------------------- *)

HeaderText ==
    <<"#"," ","M","C","P"," ","S","e","r","v","e","r"," ","E","n","v","i","r","o","n",
      "m","e","n","t"," ","V","a","r","i","a","b","l","e","s","\n","#"," ","C","o","p",
      "y"," ","t","h","i","s"," ","f","i","l","e"," ","t","o"," ",".","e","n","v"," ",
      "a","n","d"," ","f","i","l","l"," ","i","n"," ","t","h","e"," ","v","a","l","u",
      "e","s","\n","\n","#"," ","S","e","r","v","e","r"," ","c","o","n","f","i","g","u",
      "r","a","t","i","o","n","\n","P","O","R","T","=","3","0","0","0","\n","L","O","G",
      "_","L","E","V","E","L","=","i","n","f","o","\n","\n">>

AuthHeaderText ==
    <<"#"," ","A","P","I"," ","A","u","t","h","e","n","t","i","c","a","t","i","o","n",
      "\n">>

RefCommentTail ==
    <<" ","-"," ","R","e","f","e","r","e","n","c","e","d"," ","s","e","c","u","r","i",
      "t","y"," ","s","c","h","e","m","e"," ","(","r","e","f","e","r","e","n","c","e",
      " ","n","o","t"," ","r","e","s","o","l","v","e","d",")","\n">>

ApiKeyTail ==
    <<"=","y","o","u","r","_","a","p","i","_","k","e","y","_","h","e","r","e","\n">>

BearerTail ==
    <<"=","y","o","u","r","_","b","e","a","r","e","r","_","t","o","k","e","n","_","h",
      "e","r","e","\n">>

UsernameTail ==
    <<"=","y","o","u","r","_","u","s","e","r","n","a","m","e","_","h","e","r","e","\n">>

PasswordTail ==
    <<"=","y","o","u","r","_","p","a","s","s","w","o","r","d","_","h","e","r","e","\n">>

OAuthCommentHead ==
    <<"#"," ","O","A","u","t","h","2"," ","a","u","t","h","e","n","t","i","c","a","t",
      "i","o","n"," ","(">>

OAuthCommentTail ==
    <<" ","f","l","o","w",")","\n">>

OAuthTokenPrefix ==
    <<"O","A","U","T","H","_","T","O","K","E","N","_">>

OAuthTail ==
    <<"=","y","o","u","r","_","o","a","u","t","h","_","t","o","k","e","n","_","h","e",
      "r","e","\n">>

NoAuthText ==
    <<"#"," ","N","o"," ","A","P","I"," ","a","u","t","h","e","n","t","i","c","a","t",
      "i","o","n"," ","r","e","q","u","i","r","e","d","\n">>

McpcatText ==
    <<"\n","#"," ","M","C","P","c","a","t"," ","-","-"," ","M","C","P"," ","p","r","o",
      "d","u","c","t"," ","a","n","a","l","y","t","i","c","s"," ","a","n","d"," ","l",
      "i","v","e"," ","d","e","b","u","g","g","i","n","g"," ","t","o","o","l","s","\n",
      "#"," ","S","i","g","n"," ","u","p"," ","a","n","d"," ","g","e","t"," ","y","o",
      "u","r"," ","p","r","o","j","e","c","t"," ","I","D"," ","f","o","r"," ","f","r",
      "e","e"," ","a","t"," ","h","t","t","p","s",":","/","/","m","c","p","c","a","t",
      ".","i","o","\n","M","C","P","C","A","T","_","P","R","O","J","E","C","T","_","I",
      "D","=","p","r","o","j","_","0","0","0","0","0","0","0"," "," ","#"," ","R","e",
      "p","l","a","c","e"," ","w","i","t","h"," ","y","o","u","r"," ","M","C","P","c",
      "a","t"," ","p","r","o","j","e","c","t"," ","I","D","\n">>

OtelText ==
    <<"\n","#"," ","O","p","e","n","T","e","l","e","m","e","t","r","y"," ","C","o","n",
      "f","i","g","u","r","a","t","i","o","n"," ","f","o","r"," ","l","o","g","g","i",
      "n","g"," ","a","n","d"," ","t","r","a","c","e","s","\n","O","T","L","P","_","E",
      "N","D","P","O","I","N","T","=","h","t","t","p",":","/","/","l","o","c","a","l",
      "h","o","s","t",":","4","3","1","8","/","v","1","/","t","r","a","c","e","s"," ",
      " ","#"," ","O","T","L","P"," ","c","o","l","l","e","c","t","o","r"," ","e","n",
      "d","p","o","i","n","t","\n">>

FooterText ==
    <<"\n","#"," ","A","d","d"," ","a","n","y"," ","o","t","h","e","r"," ","e","n","v",
      "i","r","o","n","m","e","n","t"," ","v","a","r","i","a","b","l","e","s"," ","y",
      "o","u","r"," ","A","P","I"," ","m","i","g","h","t"," ","n","e","e","d","\n">>

(* ------------------------ external collaborator ------------------------ *)

\* getEnvVarName of ../utils/security.js: a deterministic, legal
\* environment-variable identifier for (schemeName, type).
getEnvVarName(schemeName, type) ==
    type \o <<"_">> \o toUpperCase(replaceNonAlnum(schemeName))

(* ------------------------------ inputs --------------------------------- *)

NoSubtype == [kind |-> "undefined", text |-> <<>>]

StringSubtype(t) == [kind |-> "string", text |-> t]

NumberSubtype == [kind |-> "number", text |-> <<>>]

NoFlows == [kind |-> "undefined", keys |-> <<>>]

\* A flows object; only its keys matter, values are not read.
FlowsObject(keys) ==
    [kind |-> "object", keys |-> [k \in 1..Len(keys) |-> [name |-> keys[k]]]]

SchemeObject(ref, type, scheme, flows) ==
    [shape |-> "object", ref |-> ref, type |-> type, scheme |-> scheme, flows |-> flows]

NullValue ==
    [shape |-> "null", ref |-> FALSE, type |-> "undefined",
     scheme |-> NoSubtype, flows |-> NoFlows]

BearerSpellings == {<<"b","e","a","r","e","r">>, <<"B","E","A","R","E","R">>}

BasicSpellings == {<<"B","a","s","i","c">>}

OtherSubtypes == {<<"d","i","g","e","s","t">>}

\* Keys of a flows object: none, or two of which one holds a line break.
FlowKeyLists ==
    {<<>>, <<<<"i","m","p","l","i","c","i","t">>, <<"x","\n","y">>>>}

\* Values of the mapping: null, a reference that also carries a type, and
\* definitions of every type and subtype the function tells apart.
SchemeValues ==
    {NullValue}
    \cup {SchemeObject(TRUE, "apiKey", NoSubtype, NoFlows)}
    \cup {SchemeObject(FALSE, "apiKey", NoSubtype, NoFlows)}
    \cup {SchemeObject(FALSE, "http", StringSubtype(t), NoFlows) :
            t \in BearerSpellings \cup BasicSpellings \cup OtherSubtypes}
    \cup {SchemeObject(FALSE, "http", NoSubtype, NoFlows)}
    \cup {SchemeObject(FALSE, "http", NumberSubtype, NoFlows)}
    \cup {SchemeObject(FALSE, "oauth2", NoSubtype, NoFlows)}
    \cup {SchemeObject(FALSE, "oauth2", NoSubtype, FlowsObject(ks)) : ks \in FlowKeyLists}
    \cup {SchemeObject(FALSE, "openIdConnect", NoSubtype, NoFlows)}

\* Scheme names: an array-index key, a name with a character outside
\* [A-Za-z0-9], and a name with both letter cases and a line break.
SchemeNames == {<<"1">>, <<"k","-","2">>, <<"a","\n","B">>}

SchemeProps == [name : SchemeNames, value : SchemeValues]

DistinctNames(p) ==
    \A a, b \in 1..Len(p) : a # b => p[a].name # p[b].name

PropSeqs ==
    UNION {{p \in [1..n -> SchemeProps] : DistinctNames(p)} : n \in 0..MaxEntries}

AbsentSchemes == [defined |-> FALSE, props |-> <<>>]

SchemeMappings ==
    {AbsentSchemes} \cup {[defined |-> TRUE, props |-> p] : p \in PropSeqs}

AbsentOptions == [defined |-> FALSE, withMcpcat |-> FALSE, withOtel |-> FALSE]

OptionValues ==
    {AbsentOptions}
    \cup {[defined |-> TRUE, withMcpcat |-> m, withOtel |-> o] : m, o \in BOOLEAN}

(* ------------------------------- state --------------------------------- *)

VARIABLES
    securitySchemes,  \* first argument: absent, or its properties in insertion order
    options,          \* second argument: absent, or the two toggles
    content,          \* the text built so far
    entries,          \* the array the for-of loop iterates
    i,                \* position of the loop in entries
    pc                \* position in generateEnvExample

vars == <<securitySchemes, options, content, entries, i, pc>>

Init ==
    /\ securitySchemes \in SchemeMappings
    /\ options \in OptionValues
    /\ content = <<>>
    /\ entries = <<>>
    /\ i = 1
    /\ pc = "start"

(* --------------------------- generateEnvExample ------------------------ *)

\* Variant of HasSchemes that drops the length test.
HasSchemes_IgnoresEmpty(s) == s.defined

\* securitySchemes && Object.keys(securitySchemes).length > 0
HasSchemes(s) == s.defined /\ Len(ObjectKeys(s.props)) > 0

\* Variant of OptWithMcpcat that reads the tracing toggle.
OptWithMcpcat_ReadsOtel(o) == o.defined /\ o.withOtel

\* options?.withMcpcat
OptWithMcpcat(o) == o.defined /\ o.withMcpcat

\* options?.withOtel
OptWithOtel(o) == o.defined /\ o.withOtel

\* '$ref' in schemeOrRef raises a TypeError unless the right operand is an object.
InOperatorThrows(v) == v.shape # "object"

\* scheme.scheme?.toLowerCase() raises a TypeError when scheme.scheme is
\* neither undefined nor a string.
SubtypeThrows(v) == v.scheme.kind = "number"

\* Variant of SubtypeIs that compares without lowering the case.
SubtypeIs_CaseSensitive(v, literal) ==
    v.scheme.kind = "string" /\ v.scheme.text = literal

\* scheme.scheme?.toLowerCase() === literal
SubtypeIs(v, literal) ==
    v.scheme.kind = "string" /\ toLowerCase(v.scheme.text) = literal

\* scheme.flows ? Object.keys(scheme.flows).join(', ') : 'unknown'
FlowNames(v) ==
    IF v.flows.kind = "object" THEN join(ObjectKeys(v.flows.keys), <<","," ">>)
    ELSE <<"u","n","k","n","o","w","n">>

\* Variant of OAuthVarName that leaves out toUpperCase.
OAuthVarName_NoUpperCase(name) == OAuthTokenPrefix \o replaceNonAlnum(name)

\* `OAUTH_TOKEN_${name.replace(/[^a-zA-Z0-9]/g, '_').toUpperCase()}`
OAuthVarName(name) == OAuthTokenPrefix \o toUpperCase(replaceNonAlnum(name))

InLoop == pc = "loop" /\ i <= Len(entries)

Advance(text) ==
    /\ content' = content \o text
    /\ i' = i + 1
    /\ UNCHANGED <<securitySchemes, options, entries, pc>>

Throw ==
    /\ pc' = "threw"
    /\ UNCHANGED <<securitySchemes, options, content, entries, i>>

Begin ==
    /\ pc = "start"
    /\ content' = HeaderText
    /\ pc' = "auth"
    /\ UNCHANGED <<securitySchemes, options, entries, i>>

AuthHeader ==
    /\ pc = "auth"
    /\ HasSchemes(securitySchemes)
    /\ content' = content \o AuthHeaderText
    /\ entries' = ObjectEntries(securitySchemes.props)
    /\ i' = 1
    /\ pc' = "loop"
    /\ UNCHANGED <<securitySchemes, options>>

NoAuth ==
    /\ pc = "auth"
    /\ ~HasSchemes(securitySchemes)
    /\ content' = content \o NoAuthText
    /\ pc' = "mcpcat"
    /\ UNCHANGED <<securitySchemes, options, entries, i>>

RefCheckThrows ==
    /\ InLoop
    /\ InOperatorThrows(entries[i].value)
    /\ Throw

RefEntry ==
    /\ InLoop
    /\ ~InOperatorThrows(entries[i].value)
    /\ entries[i].value.ref
    /\ Advance(<<"#", " ">> \o entries[i].name \o RefCommentTail)

IsScheme(v) == ~InOperatorThrows(v) /\ ~v.ref

ApiKeyEntry ==
    /\ InLoop
    /\ IsScheme(entries[i].value)
    /\ entries[i].value.type = "apiKey"
    /\ Advance(getEnvVarName(entries[i].name, <<"A","P","I","_","K","E","Y">>) \o ApiKeyTail)

HttpSubtypeThrows ==
    /\ InLoop
    /\ IsScheme(entries[i].value)
    /\ entries[i].value.type = "http"
    /\ SubtypeThrows(entries[i].value)
    /\ Throw

HttpBearerEntry ==
    /\ InLoop
    /\ IsScheme(entries[i].value)
    /\ entries[i].value.type = "http"
    /\ ~SubtypeThrows(entries[i].value)
    /\ SubtypeIs(entries[i].value, <<"b","e","a","r","e","r">>)
    /\ Advance(getEnvVarName(entries[i].name, <<"B","E","A","R","E","R","_","T","O","K","E","N">>) \o BearerTail)

\* Variant of HttpBasicEntry that leaves out the password line.
HttpBasicEntry_UsernameOnly ==
    /\ InLoop
    /\ IsScheme(entries[i].value)
    /\ entries[i].value.type = "http"
    /\ ~SubtypeThrows(entries[i].value)
    /\ ~SubtypeIs(entries[i].value, <<"b","e","a","r","e","r">>)
    /\ SubtypeIs(entries[i].value, <<"b","a","s","i","c">>)
    /\ Advance(getEnvVarName(entries[i].name, <<"B","A","S","I","C","_","U","S","E","R","N","A","M","E">>) \o UsernameTail)

HttpBasicEntry ==
    /\ InLoop
    /\ IsScheme(entries[i].value)
    /\ entries[i].value.type = "http"
    /\ ~SubtypeThrows(entries[i].value)
    /\ ~SubtypeIs(entries[i].value, <<"b","e","a","r","e","r">>)
    /\ SubtypeIs(entries[i].value, <<"b","a","s","i","c">>)
    /\ Advance(getEnvVarName(entries[i].name, <<"B","A","S","I","C","_","U","S","E","R","N","A","M","E">>) \o UsernameTail
               \o getEnvVarName(entries[i].name, <<"B","A","S","I","C","_","P","A","S","S","W","O","R","D">>) \o PasswordTail)

HttpOtherEntry ==
    /\ InLoop
    /\ IsScheme(entries[i].value)
    /\ entries[i].value.type = "http"
    /\ ~SubtypeThrows(entries[i].value)
    /\ ~SubtypeIs(entries[i].value, <<"b","e","a","r","e","r">>)
    /\ ~SubtypeIs(entries[i].value, <<"b","a","s","i","c">>)
    /\ Advance(<<>>)

OAuth2Entry ==
    /\ InLoop
    /\ IsScheme(entries[i].value)
    /\ entries[i].value.type = "oauth2"
    /\ Advance(OAuthCommentHead \o FlowNames(entries[i].value) \o OAuthCommentTail
               \o OAuthVarName(entries[i].name) \o OAuthTail)

OtherTypeEntry ==
    /\ InLoop
    /\ IsScheme(entries[i].value)
    /\ entries[i].value.type \notin {"apiKey", "http", "oauth2"}
    /\ Advance(<<>>)

LoopExit ==
    /\ pc = "loop"
    /\ i > Len(entries)
    /\ pc' = "mcpcat"
    /\ UNCHANGED <<securitySchemes, options, content, entries, i>>

Mcpcat ==
    /\ pc = "mcpcat"
    /\ content' = IF OptWithMcpcat(options) THEN content \o McpcatText ELSE content
    /\ pc' = "otel"
    /\ UNCHANGED <<securitySchemes, options, entries, i>>

Otel ==
    /\ pc = "otel"
    /\ content' = IF OptWithOtel(options) THEN content \o OtelText ELSE content
    /\ pc' = "footer"
    /\ UNCHANGED <<securitySchemes, options, entries, i>>

Footer ==
    /\ pc = "footer"
    /\ content' = content \o FooterText
    /\ pc' = "done"
    /\ UNCHANGED <<securitySchemes, options, entries, i>>

Next ==
    \/ Begin
    \/ AuthHeader
    \/ NoAuth
    \/ RefCheckThrows
    \/ RefEntry
    \/ ApiKeyEntry
    \/ HttpSubtypeThrows
    \/ HttpBearerEntry
    \/ HttpBasicEntry
    \/ HttpOtherEntry
    \/ OAuth2Entry
    \/ OtherTypeEntry
    \/ LoopExit
    \/ Mcpcat
    \/ Otel
    \/ Footer

Spec == Init /\ [][Next]_vars

TypeOK ==
    /\ pc \in {"start", "auth", "loop", "mcpcat", "otel", "footer", "done", "threw"}
    /\ i \in 1..(MaxEntries + 1)
    /\ Len(entries) <= MaxEntries

(* --------------------------- reading the text --------------------------- *)

LineBreaks(text) == {k \in 1..Len(text) : text[k] = "\n"}

\* The lines of the text, without their line breaks, by start position.
Lines(text) ==
    LET n      == Len(text)
        breaks == LineBreaks(text)
        starts == IF n = 0 THEN {} ELSE {1} \cup {k + 1 : k \in breaks \ {n}}
        end(s) == LET after == {k \in breaks : k >= s}
                  IN  IF after = {} THEN n
                      ELSE (CHOOSE k \in after : \A j \in after : k <= j) - 1
    IN  [s \in starts |-> SubSeq(text, s, end(s))]

HasLine(text, line) ==
    LET ls == Lines(text) IN \E s \in DOMAIN ls : ls[s] = line

IsBlankLine(l) == Len(l) = 0

IsCommentLine(l) == Len(l) > 0 /\ l[1] = "#"

IdentifierStart == Range(LowerLetters) \cup Range(UpperLetters) \cup {"_"}

IdentifierPart == IdentifierStart \cup Range(Digits)

\* A legal environment-variable identifier: [A-Za-z_][A-Za-z0-9_]*
IsIdentifier(s) ==
    /\ Len(s) > 0
    /\ s[1] \in IdentifierStart
    /\ \A k \in 1..Len(s) : s[k] \in IdentifierPart

IsKeyValueLine(l) ==
    \E k \in 1..Len(l) : l[k] = "=" /\ IsIdentifier(SubSeq(l, 1, k - 1))

\* The placeholder values of the authentication variables.
Placeholders ==
    {<<"y","o","u","r","_","a","p","i","_","k","e","y","_","h","e","r","e">>, <<"y","o","u","r","_","b","e","a","r","e","r","_","t","o","k","e","n","_","h","e","r","e">>, <<"y","o","u","r","_","u","s","e","r","n","a","m","e","_","h","e","r","e">>,
     <<"y","o","u","r","_","p","a","s","s","w","o","r","d","_","h","e","r","e">>, <<"y","o","u","r","_","o","a","u","t","h","_","t","o","k","e","n","_","h","e","r","e">>}

\* A NAME=placeholder line of the authentication block.
IsDeclarationLine(l) ==
    \E k \in 1..Len(l) :
        /\ l[k] = "="
        /\ IsIdentifier(SubSeq(l, 1, k - 1))
        /\ SubSeq(l, k + 1, Len(l)) \in Placeholders

DeclarationsIn(ls) == Cardinality({s \in DOMAIN ls : IsDeclarationLine(ls[s])})

CommentsIn(ls) == Cardinality({s \in DOMAIN ls : IsCommentLine(ls[s])})

DeclarationCount(text) == DeclarationsIn(Lines(text))

\* Positions at which pat (non-empty) occurs in text.
Occurrences(pat, text) ==
    {k \in 1..(Len(text) - Len(pat) + 1) :
        text[k] = pat[1] /\ SubSeq(text, k, k + Len(pat) - 1) = pat}

StartsWith(text, pat) ==
    Len(text) >= Len(pat) /\ SubSeq(text, 1, Len(pat)) = pat

EndsWith(text, pat) ==
    Len(text) >= Len(pat) /\ SubSeq(text, Len(text) - Len(pat) + 1, Len(text)) = pat

AuthHeaderLine == <<"#"," ","A","P","I"," ","A","u","t","h","e","n","t","i","c","a","t","i","o","n">>

NoAuthLine == <<"#"," ","N","o"," ","A","P","I"," ","a","u","t","h","e","n","t","i","c","a","t","i","o","n"," ","r","e","q","u","i","r","e","d">>

(* ------------------------ shapes of a scheme entry ---------------------- *)

IsReference(v) == v.shape = "object" /\ v.ref

IsDefinition(v) == v.shape = "object" /\ ~v.ref

IsBearer(v) ==
    IsDefinition(v) /\ v.type = "http" /\ v.scheme.kind = "string"
        /\ v.scheme.text \in BearerSpellings

IsBasic(v) ==
    IsDefinition(v) /\ v.type = "http" /\ v.scheme.kind = "string"
        /\ v.scheme.text \in BasicSpellings

IsOAuth2(v) == IsDefinition(v) /\ v.type = "oauth2"

IsApiKey(v) == IsDefinition(v) /\ v.type = "apiKey"

ExpectedDeclarations(v) ==
    IF IsApiKey(v) \/ IsBearer(v) \/ IsOAuth2(v) THEN 1
    ELSE IF IsBasic(v) THEN 2
    ELSE 0

ExpectedComments(v) == IF IsReference(v) \/ IsOAuth2(v) THEN 1 ELSE 0

RECURSIVE SumDeclarations(_)
SumDeclarations(props) ==
    IF Len(props) = 0 THEN 0
    ELSE ExpectedDeclarations(props[1].value) + SumDeclarations(Tail(props))

Finished == pc = "done"

\* The loop has just handled entries[i - 1].
Handled(P(_)) == pc = "loop" /\ i > 1 /\ P(entries[i - 1].value)

(* ------------------------------ claims ---------------------------------- *)

\* C1: the artifact has the line "# API Authentication" exactly when some
\* entry of the mapping produces a line, and otherwise has the line
\* "# No API authentication required" and no "# API Authentication" line.
C1_HeaderIffLinesProduced ==
    Finished =>
        LET props == securitySchemes.props
            any   == \E k \in 1..Len(props) :
                        ExpectedDeclarations(props[k].value)
                            + ExpectedComments(props[k].value) > 0
        IN  /\ HasLine(content, AuthHeaderLine) <=> any
            /\ ~any => HasLine(content, NoAuthLine)

\* C2: generateEnvExample raises no exception, whatever the shape of the
\* entries of the mapping.
C2_NeverThrows == pc # "threw"

\* C3: the number of NAME=placeholder lines an entry contributes is fixed
\* by its shape (apiKey 1; http bearer 1, basic 2, other or missing subtype
\* 0; oauth2 1 after one comment line; a reference 0 and one comment line;
\* any other kind no line at all), and the declaration lines of the auth
\* block number the sum of these counts.  Stated as running totals over
\* the entries handled so far, up to and including the end of the loop,
\* so that each entry accounts for exactly its own counts.
BreaksIn(s) == Cardinality(LineBreaks(s))

RECURSIVE BreaksInAll(_)
BreaksInAll(keys) ==
    IF Len(keys) = 0 THEN 0 ELSE BreaksIn(keys[1].name) + BreaksInAll(Tail(keys))

\* Physical lines of an entry: its declarations and comment, a comment
\* that quotes a name or flow key being cut at every line break quoted.
ExpectedLines(p) ==
    ExpectedDeclarations(p.value) + ExpectedComments(p.value)
        + (IF IsReference(p.value) THEN BreaksIn(p.name)
           ELSE IF IsOAuth2(p.value) THEN BreaksInAll(p.value.flows.keys)
           ELSE 0)

RECURSIVE SumComments(_)
SumComments(props) ==
    IF Len(props) = 0 THEN 0
    ELSE ExpectedComments(props[1].value) + SumComments(Tail(props))

RECURSIVE SumLines(_)
SumLines(props) ==
    IF Len(props) = 0 THEN 0
    ELSE ExpectedLines(props[1]) + SumLines(Tail(props))

\* The text the loop has written so far, after the header sections.
EntryText == SubSeq(content, Len(HeaderText) + Len(AuthHeaderText) + 1, Len(content))

C4_NoSchemes ==
    (Finished /\ (~securitySchemes.defined \/ Len(securitySchemes.props) = 0)) =>
        /\ HasLine(content, NoAuthLine)
        /\ ~HasLine(content, AuthHeaderLine)
        /\ DeclarationCount(content) = 0

\* A finished call on an empty (not absent) mapping with both toggles set.
C4_Witness ==
    /\ Finished
    /\ securitySchemes.defined
    /\ Len(securitySchemes.props) = 0
    /\ options.defined /\ options.withMcpcat /\ options.withOtel

\* C5: the loop handles the entries in the mapping's insertion order, for
\* all key names, keys that look like non-negative integers included.
C5_InsertionOrder ==
    pc = "loop" => entries = securitySchemes.props

\* C6: the artifact is header, auth block, analytics block, tracing block,
\* footer in that order; header and footer occur once; the analytics block
\* is there exactly when withMcpcat is set and the tracing block exactly
\* when withOtel is set, absent options counting as both unset; a toggle
\* changes nothing outside its own block.
SectionMarkers ==
    {<<"P","O","R","T","=">>, <<"L","O","G","_","L","E","V","E","L","=">>, <<"M","C","P","C","A","T","_","P","R","O","J","E","C","T","_","I","D">>, <<"O","T","L","P","_","E","N","D","P","O","I","N","T">>,
     <<"#"," ","A","d","d"," ","a","n","y"," ","o","t","h","e","r"," ","e","n","v","i","r","o","n","m","e","n","t"," ","v","a","r","i","a","b","l","e","s">>}

\* Each marker occurs once in the fixed sections, in its own section.
MarkersOccurOnce ==
    /\ \A m \in SectionMarkers :
           Cardinality(Occurrences(m, HeaderText \o McpcatText \o OtelText \o FooterText)) = 1
    /\ HasLine(HeaderText, <<"P","O","R","T","=","3","0","0","0">>)
    /\ HasLine(HeaderText, <<"L","O","G","_","L","E","V","E","L","=","i","n","f","o">>)
    /\ Occurrences(<<"M","C","P","C","A","T","_","P","R","O","J","E","C","T","_","I","D","=">>, McpcatText) # {}
    /\ Occurrences(<<"O","T","L","P","_","E","N","D","P","O","I","N","T","=">>, OtelText) # {}
    /\ Occurrences(<<"#"," ","A","d","d"," ","a","n","y"," ","o","t","h","e","r"," ","e","n","v","i","r","o","n","m","e","n","t"," ","v","a","r","i","a","b","l","e","s">>, FooterText) # {}

C6_SectionOrder ==
    Finished =>
        LET analytics == IF options.defined /\ options.withMcpcat
                         THEN McpcatText ELSE <<>>
            tracing   == IF options.defined /\ options.withOtel
                         THEN OtelText ELSE <<>>
            tail      == analytics \o tracing \o FooterText
            n         == Len(content)
            auth      == SubSeq(content, Len(HeaderText) + 1, n - Len(tail))
        IN  /\ n >= Len(HeaderText) + Len(tail)
            /\ StartsWith(content, HeaderText)
            /\ EndsWith(content, tail)
            /\ StartsWith(auth, AuthHeaderLine \o <<"\n">>) \/ auth = NoAuthLine \o <<"\n">>
            /\ \A m \in SectionMarkers : Occurrences(m, auth) = {}
            /\ MarkersOccurOnce

\* A finished call with a non-empty mapping and only the analytics toggle set.
C6_Witness ==
    /\ Finished
    /\ Len(entries) > 0
    /\ options.defined /\ options.withMcpcat /\ ~options.withOtel

\* C7: the comment of an oauth2 entry names the flow keys in mapping order
\* joined by ", ", and names "unknown" when the flows field is missing or
\* is an empty mapping; the OAUTH_TOKEN_ declaration follows it directly.
FlowKeysInOrder(v) == [k \in 1..Len(v.flows.keys) |-> v.flows.keys[k].name]

C7_FlowComment ==
    Handled(IsOAuth2) =>
        LET v     == entries[i - 1].value
            names == IF v.flows.kind = "undefined" \/ Len(v.flows.keys) = 0
                     THEN <<"u","n","k","n","o","w","n">>
                     ELSE join(FlowKeysInOrder(v), <<","," ">>)
        IN  \E k \in Occurrences(<<"O","A","U","T","H","_","T","O","K","E","N","_">>, content) :
                /\ LineBreaks(SubSeq(content, k, Len(content))) = {Len(content) - k + 1}
                /\ EndsWith(SubSeq(content, 1, k - 1),
                            <<"#"," ","O","A","u","t","h","2"," ","a","u","t","h","e","n","t","i","c","a","t","i","o","n"," ","(">> \o names \o <<" ","f","l","o","w",")","\n">>)

\* C8: every non-blank line of the artifact is a comment starting with "#"
\* or a KEY=value pair, whatever characters names and flow keys contain.
C8_LineOriented ==
    Finished =>
        LET ls == Lines(content)
        IN  \A s \in DOMAIN ls :
                IsBlankLine(ls[s]) \/ IsCommentLine(ls[s]) \/ IsKeyValueLine(ls[s])

\* C9: an http entry whose subtype spells bearer in any letter case adds
\* the one line <resolver(name, BEARER_TOKEN)>=your_bearer_token_here; one
\* whose subtype spells basic in any letter case adds exactly the lines
\* <resolver(name, BASIC_USERNAME)>=your_username_here and
\* <resolver(name, BASIC_PASSWORD)>=your_password_here, adjacent, in that
\* order.
C9_HttpStep ==
    InLoop =>
        LET v    == entries[i].value
            name == entries[i].name
        IN  /\ IsBearer(v) =>
                 content' = content \o getEnvVarName(name, <<"B","E","A","R","E","R","_","T","O","K","E","N">>)
                                    \o <<"=","y","o","u","r","_","b","e","a","r","e","r","_","t","o","k","e","n","_","h","e","r","e","\n">>
            /\ IsBasic(v) =>
                 content' = content \o getEnvVarName(name, <<"B","A","S","I","C","_","U","S","E","R","N","A","M","E">>)
                                    \o <<"=","y","o","u","r","_","u","s","e","r","n","a","m","e","_","h","e","r","e","\n">>
                                    \o getEnvVarName(name, <<"B","A","S","I","C","_","P","A","S","S","W","O","R","D">>)
                                    \o <<"=","y","o","u","r","_","p","a","s","s","w","o","r","d","_","h","e","r","e","\n">>

C9_HttpSubtype == [][C9_HttpStep]_vars

\* The loop has handled an http scheme spelled "Basic" and one spelled "BEARER" in one call.
C9_Witness ==
    /\ pc = "loop"
    /\ i = 3
    /\ \E k \in 1..2 : IsBasic(entries[k].value)
    /\ \E k \in 1..2 : IsBearer(entries[k].value) /\ entries[k].value.scheme.text = <<"B","E","A","R","E","R">>

\* C10: the variable of an oauth2 entry is OAUTH_TOKEN_ followed by one
\* character of [A-Z0-9_] per character of the scheme name (letters
\* uppercased, digits kept, anything else "_"), and its placeholder is
\* your_oauth_token_here.
ExpectedOAuthChar(c) ==
    IF c \in Range(Digits) \/ c \in Range(UpperLetters) THEN c
    ELSE IF c \in Range(LowerLetters) THEN UpperLetters[IndexOf(c, LowerLetters)]
    ELSE "_"

C10_OAuthVarName ==
    Handled(IsOAuth2) =>
        LET name == entries[i - 1].name
            tail == <<"=","y","o","u","r","_","o","a","u","t","h","_","t","o","k","e","n","_","h","e","r","e","\n">>
            head == <<"\n","O","A","U","T","H","_","T","O","K","E","N","_">>
            from == Len(content) - Len(tail) - Len(name)
        IN  /\ EndsWith(content, tail)
            /\ from >= Len(head)
            /\ SubSeq(content, from - Len(head) + 1, from) = head
            /\ \A k \in 1..Len(name) :
                   /\ content[from + k] \in Range(UpperLetters) \cup Range(Digits) \cup {"_"}
                   /\ content[from + k] = ExpectedOAuthChar(name[k])

\* The loop has handled an oauth2 entry whose name has a lowercase letter,
\* an uppercase letter and a character outside [A-Za-z0-9].
C10_Witness ==
    /\ Handled(IsOAuth2)
    /\ entries[i - 1].name = <<"a","\n","B">>

=============================================================================
